---- MODULE Spec2Model ----
(***************************************************************************)
(* Model of explorer/client/src/pages/transaction-result/                  *)
(* TransactionView.tsx: the kind formatter (formatByTransactionKind), the  *)
(* link-group builder (generateMutatedCreated), the field-group renderer   *)
(* (ItemView) and the assembler (TransactionView).                         *)
(*                                                                         *)
(* JavaScript values are tagged records [t |-> type, v |-> content], so    *)
(* that truthiness, Array.isArray and property access on undefined behave  *)
(* as they do at run time.                                                 *)
(***************************************************************************)
EXTENDS Integers, Sequences, FiniteSets, TLC

VARIABLES pc, entry, txdata, fmtArgs, txKindData, view, threw

vars == <<pc, entry, txdata, fmtArgs, txKindData, view, threw>>

-----------------------------------------------------------------------------
(* Bounds *)

\* Mutated plus created object references of a record.
MaxObjs == 2
\* Arguments of a Call.
MaxArgs == 2
\* Entries of a Publish module map (above the display cap of 3).
MaxModules == 4
\* Largest timestamp_ms.
MaxTimestamp == 1

-----------------------------------------------------------------------------
(* JavaScript values *)

Undef == [t |-> "undefined"]
Null == [t |-> "null"]
JTrue == [t |-> "boolean", v |-> TRUE]
Str(s) == [t |-> "string", v |-> s]
Num(n) == [t |-> "number", v |-> n]
Arr(a) == [t |-> "array", v |-> a]
Obj(o) == [t |-> "object", v |-> o]

\* ToBoolean of the language: undefined, null, "", 0 and false are falsy;
\* every array and object (the empty array included) is truthy.
Truthy(x) ==
    CASE x.t = "undefined" -> FALSE
      [] x.t = "null" -> FALSE
      [] x.t = "string" -> x.v # ""
      [] x.t = "number" -> x.v # 0
      [] x.t = "boolean" -> x.v
      [] OTHER -> TRUE

IsArray(x) == x.t = "array"

\* A property can be read from (and `in` applied to) an object only.
IsObject(x) == x.t = "object"

SeqsUpTo(S, n) == UNION {[1..k -> S] : k \in 0..n}

Min(a, b) == IF a < b THEN a ELSE b

Slice(s, from, to) == [i \in 1..(Min(Len(s), to) - from) |-> s[from + i]]

-----------------------------------------------------------------------------
(* Accessors of @mysten/sui.js used by the view.  A SuiTransactionKind is   *)
(* an object with one key, the kind name, holding the kind's payload; it is *)
(* modelled as [key |-> name or Undef, val |-> payload or Undef].           *)

\* Object.keys(data)[0]
getTransactionKindName(data) == data.key

\* 'TransferObject' in data ? data.TransferObject : undefined
getTransferObjectTransaction(data) ==
    IF data.key = Str("TransferObject") THEN data.val ELSE Undef

\* 'Call' in data ? data.Call : undefined
getMoveCallTransaction(data) ==
    IF data.key = Str("Call") THEN data.val ELSE Undef

\* 'Publish' in data ? data.Publish : undefined
getPublishTransaction(data) ==
    IF data.key = Str("Publish") THEN data.val ELSE Undef

\* txdata.data.transactions[0]
getTransactions(tx) == tx.data.transactions

getTransactionSender(tx) == tx.data.sender

-----------------------------------------------------------------------------
(* Results of a call: a returned value or a thrown TypeError. *)

Return(x) == [threw |-> FALSE, ret |-> x]
Throw == [threw |-> TRUE, ret |-> Undef]

\* A field of the kind-specific field set; a property the object literal
\* does not set reads as undefined.
FieldObj(value, link, category, list) ==
    [t |-> "object", value |-> value, link |-> link,
     category |-> category, list |-> list]

\* The field set with no property set: every property reads as undefined.
NoFields ==
    [title |-> Undef, sender |-> Undef, objectId |-> Undef,
     recipient |-> Undef, package |-> Undef, module |-> Undef,
     arguments |-> Undef]

SenderField(sender) == FieldObj(sender, JTrue, Str("addresses"), Undef)

\* FormatTransfer with the recipient field left unlinked.
FormatTransferUnlinkedRecipient(data, sender) ==
    LET transfer == getTransferObjectTransaction(data) IN
    IF ~IsObject(transfer) \/ ~IsObject(transfer.v.objectRef)
    THEN Throw
    ELSE Return([NoFields EXCEPT
            !.title = Str("Transfer"),
            !.sender = SenderField(sender),
            !.objectId = FieldObj(transfer.v.objectRef.v.objectId, JTrue,
                                  Str("objects"), Undef),
            !.recipient = FieldObj(transfer.v.recipient, Undef,
                                   Str("addresses"), Undef)])

FormatTransfer(data, sender) ==
    LET transfer == getTransferObjectTransaction(data) IN
    IF ~IsObject(transfer) \/ ~IsObject(transfer.v.objectRef)
    THEN Throw
    ELSE Return([NoFields EXCEPT
            !.title = Str("Transfer"),
            !.sender = SenderField(sender),
            !.objectId = FieldObj(transfer.v.objectRef.v.objectId, JTrue,
                                  Str("objects"), Undef),
            !.recipient = FieldObj(transfer.v.recipient, JTrue,
                                   Str("addresses"), Undef)])

FormatCall(data, sender) ==
    LET moveCall == getMoveCallTransaction(data) IN
    IF ~IsObject(moveCall) \/ ~IsObject(moveCall.v.package)
    THEN Throw
    ELSE Return([NoFields EXCEPT
            !.title = Str("Call"),
            !.sender = SenderField(sender),
            !.package = FieldObj(moveCall.v.package.v.objectId, JTrue,
                                 Str("objects"), Undef),
            !.module = FieldObj(moveCall.v.module, Undef, Undef, Undef),
            !.arguments = FieldObj(moveCall.v.arguments, Undef, Undef,
                                   JTrue)])

FormatPublish(data, sender) ==
    LET publish == getPublishTransaction(data) IN
    IF ~IsObject(publish) \/ ~IsObject(publish.v.disassembled)
    THEN Throw
    ELSE Return([NoFields EXCEPT
            !.title = Str("publish"),
            !.module = FieldObj(Arr(publish.v.disassembled.v), Undef, Undef,
                                Undef),
            !.sender = IF Truthy(sender) THEN SenderField(sender)
                       ELSE Undef])

\* formatByTransactionKind whose default arm fails.
formatByTransactionKindStrict(kind, data, sender) ==
    CASE kind = Str("TransferObject") -> FormatTransfer(data, sender)
      [] kind = Str("Call") -> FormatCall(data, sender)
      [] kind = Str("Publish") -> FormatPublish(data, sender)
      [] OTHER -> Throw

formatByTransactionKind(kind, data, sender) ==
    CASE kind = Str("TransferObject") -> FormatTransfer(data, sender)
      [] kind = Str("Call") -> FormatCall(data, sender)
      [] kind = Str("Publish") -> FormatPublish(data, sender)
      [] OTHER -> Return(NoFields)

-----------------------------------------------------------------------------
(* generateMutatedCreated *)

ObjectIds(refs) == [i \in 1..Len(refs) |-> refs[i].objectId]

\* generateMutatedCreated without the length tests.
generateMutatedCreatedAlways(tx) ==
    <<[label |-> "Mutated", links |-> ObjectIds(tx.mutated)],
      [label |-> "Created", links |-> ObjectIds(tx.created)]>>

generateMutatedCreated(tx) ==
    (IF Len(tx.mutated) # 0
     THEN <<[label |-> "Mutated", links |-> ObjectIds(tx.mutated)]>>
     ELSE <<>>)
    \o
    (IF Len(tx.created) # 0
     THEN <<[label |-> "Created", links |-> ObjectIds(tx.created)]>>
     ELSE <<>>)

-----------------------------------------------------------------------------
(* ItemView: a titled group of items; an item marked as a link is rendered  *)
(* by Longtext with category "objects", any other item as its plain value.  *)

Item(label, value, link, mono) ==
    [label |-> label, value |-> value, link |-> link, monotypeClass |-> mono]

RenderItem(item) ==
    [label |-> item.label,
     value |-> item.value,
     mono |-> Truthy(item.monotypeClass),
     isLink |-> Truthy(item.link),
     category |-> IF Truthy(item.link) THEN Str("objects") ELSE Undef]

ItemView(data) ==
    [block |-> "ItemView", title |-> data.title,
     content |-> [i \in 1..Len(data.content) |-> RenderItem(data.content[i])]]

-----------------------------------------------------------------------------
(* TransactionView *)

TxResultHeader(tx, txKindName) ==
    [block |-> "TxResultHeader", txId |-> tx.txId, status |-> tx.status,
     txKindName |-> txKindName]

transactionSignatureData(tx) ==
    [title |-> "Transaction Signatures",
     content |-> <<Item(Str("Signature"), tx.txSignature, Undef, JTrue)>>]

validatorSignatureData(tx) ==
    [title |-> "Validator Signatures",
     content |-> [i \in 1..Len(tx.authSignInfo.signatures) |->
                    Item(Undef, tx.authSignInfo.signatures[i], Undef, JTrue)]]

sendreceive(tx, sender, recipient) ==
    [block |-> "SendReceiveView",
     sender |-> sender,
     timestamp_ms |-> IF Truthy(tx.timestamp_ms) THEN tx.timestamp_ms
                      ELSE Undef,
     recipient |-> IF IsObject(recipient) /\ Truthy(recipient.v.recipient)
                   THEN <<recipient.v.recipient>> ELSE <<>>]

\* GasStorageFees whose gas-payment item is not marked as a link.
GasStorageFeesUnlinked(tx) ==
    [title |-> "Gas & Storage Fees",
     content |-> <<Item(Str("Gas Payment"), tx.data.gasPayment.objectId,
                        Undef, Undef),
                   Item(Str("Gas Fees"), tx.gasFee, Undef, Undef),
                   Item(Str("Gas Budget"), tx.data.gasBudget, Undef, Undef)>>]

GasStorageFees(tx) ==
    [title |-> "Gas & Storage Fees",
     content |-> <<Item(Str("Gas Payment"), tx.data.gasPayment.objectId,
                        JTrue, Undef),
                   Item(Str("Gas Fees"), tx.gasFee, Undef, Undef),
                   Item(Str("Gas Budget"), tx.data.gasBudget, Undef, Undef)>>]

\* The argument group, or <<>> where the source has `false`.
typearguments(kindData) ==
    IF Truthy(kindData.arguments) /\ Truthy(kindData.arguments.value)
    THEN <<[title |-> "Arguments",
            content |-> [i \in 1..Len(kindData.arguments.value.v) |->
                Item(Undef, kindData.arguments.value.v[i], Undef, JTrue)]]>>
    ELSE <<>>

TxLinks(groups) ==
    [i \in 1..Len(groups) |-> [block |-> "TxLinks", data |-> groups[i]]]

ModuleCap == 3

\* Modules without the slice.
ModulesUncapped(kindData) ==
    IF Truthy(kindData.module) /\ Truthy(kindData.module.value)
       /\ IsArray(kindData.module.value)
    THEN <<[block |-> "Modules", items |-> kindData.module.value.v]>>
    ELSE <<>>

Modules(kindData) ==
    IF Truthy(kindData.module) /\ Truthy(kindData.module.value)
       /\ IsArray(kindData.module.value)
    THEN <<[block |-> "Modules",
            items |-> Slice(kindData.module.value.v, 0, ModuleCap)]>>
    ELSE <<>>

\* Render with the gas/fee group placed after the signature groups.
RenderGasLast(tx, txKindName, sender, recipient, kindData) ==
    <<TxResultHeader(tx, txKindName)>>
    \o (IF Truthy(sender) THEN <<sendreceive(tx, sender, recipient)>>
        ELSE <<>>)
    \o TxLinks(generateMutatedCreated(tx))
    \o Modules(kindData)
    \o (IF typearguments(kindData) # <<>>
        THEN <<ItemView(typearguments(kindData)[1])>> ELSE <<>>)
    \o <<ItemView(transactionSignatureData(tx))>>
    \o <<ItemView(validatorSignatureData(tx))>>
    \o <<ItemView(GasStorageFees(tx))>>

Render(tx, txKindName, sender, recipient, kindData) ==
    <<TxResultHeader(tx, txKindName)>>
    \o (IF Truthy(sender) THEN <<sendreceive(tx, sender, recipient)>>
        ELSE <<>>)
    \o TxLinks(generateMutatedCreated(tx))
    \o Modules(kindData)
    \o (IF typearguments(kindData) # <<>>
        THEN <<ItemView(typearguments(kindData)[1])>> ELSE <<>>)
    \o <<ItemView(GasStorageFees(tx))>>
    \o <<ItemView(transactionSignatureData(tx))>>
    \o <<ItemView(validatorSignatureData(tx))>>

TransactionView(tx) ==
    LET txdetails == getTransactions(tx)[1]
        txKindName == getTransactionKindName(txdetails)
        sender == getTransactionSender(tx)
        recipient == getTransferObjectTransaction(txdetails)
        kindData == formatByTransactionKind(txKindName, txdetails, sender)
    IN  IF kindData.threw THEN Throw
        ELSE Return(Render(tx, txKindName, sender, recipient, kindData.ret))

-----------------------------------------------------------------------------
(* Inputs *)

ObjectIdValues == {Str("0x1"), Str("0x2")}
AddressValues == {Str("0xA")}
ArgValues == {Str("a1"), Str("a2")}
AllModuleNames == <<"m2", "m1", "m4", "m3", "m6", "m5">>

\* Object.entries of a module map: <<name, content>> pairs, names distinct,
\* in the map's iteration order.
AllModuleEntries ==
    [i \in 1..Len(AllModuleNames) |->
        <<Str(AllModuleNames[i]), Str("bytecode")>>]

\* The module lists of up to MaxModules entries: the runs of AllModuleEntries.
ModuleLists ==
    {SubSeq(AllModuleEntries, w[1], w[1] + w[2] - 1) :
        w \in {x \in (1..Len(AllModuleNames)) \X (0..MaxModules) :
                  x[1] + x[2] - 1 <= Len(AllModuleNames)}}

SuiObjectRefs == {Obj([objectId |-> id]) : id \in ObjectIdValues}

TransferPayloads ==
    {[key |-> Str("TransferObject"),
      val |-> Obj([objectRef |-> o, recipient |-> r])] :
        o \in {Undef} \cup SuiObjectRefs,
        r \in {Undef, Str(""), Str("0xC")}}

CallPayloads ==
    {[key |-> Str("Call"),
      val |-> Obj([package |-> p, module |-> m, arguments |-> a])] :
        p \in {Undef, Obj([objectId |-> Str("0x2")])},
        m \in {Undef, Str("coin")},
        a \in {Undef} \cup {Arr(x) : x \in SeqsUpTo(ArgValues, MaxArgs)}}

PublishPayloads ==
    {[key |-> Str("Publish"), val |-> Obj([disassembled |-> d])] :
        d \in {Undef} \cup
              {Obj(x) : x \in ModuleLists}}

OtherPayloads ==
    {[key |-> Undef, val |-> Undef],
     [key |-> Str("ChangeEpoch"), val |-> Obj([epoch |-> Num(1)])]}

Payloads ==
    TransferPayloads \cup CallPayloads \cup PublishPayloads \cup OtherPayloads

KindTags ==
    {Undef, Str("TransferObject"), Str("Call"), Str("Publish"),
     Str("ChangeEpoch")}

Senders == {Undef, Str("")} \cup AddressValues

Timestamps == {Null} \cup {Num(n) : n \in 0..MaxTimestamp}

ObjRefLists == SeqsUpTo({[objectId |-> id] : id \in ObjectIdValues}, MaxObjs)

SignatureLists == {<<>>, <<Str("sig1"), Str("sig2")>>}

TxData(payload, sender, ts, mutated, created, sigs) ==
    [txId |-> Str("tx1"),
     status |-> Str("success"),
     timestamp_ms |-> ts,
     gasFee |-> Num(7),
     txSignature |-> Str("txsig"),
     authSignInfo |-> [signatures |-> sigs],
     mutated |-> mutated,
     created |-> created,
     data |-> [sender |-> sender,
               gasPayment |-> [objectId |-> Str("0x1")],
               gasBudget |-> Num(100),
               transactions |-> <<payload>>]]

NoTx == TxData([key |-> Undef, val |-> Undef], Undef, Null, <<>>, <<>>, <<>>)

NoCall == [kind |-> Undef, data |-> [key |-> Undef, val |-> Undef],
           sender |-> Undef]

-----------------------------------------------------------------------------
(* State machine: one call of the assembler on a record, or one call of the *)
(* formatter on a (kind, payload, sender) triple.                           *)

Init ==
    /\ pc = "ready"
    /\ \/ /\ entry = "TransactionView"
          /\ \E p \in Payloads, s \in Senders, ts \in Timestamps,
                m \in ObjRefLists, c \in ObjRefLists, g \in SignatureLists :
                /\ Len(m) + Len(c) <= MaxObjs
                /\ txdata = TxData(p, s, ts, m, c, g)
          /\ fmtArgs = NoCall
       \/ /\ entry = "formatByTransactionKind"
          /\ txdata = NoTx
          /\ \E k \in KindTags, p \in Payloads, s \in Senders :
                fmtArgs = [kind |-> k, data |-> p, sender |-> s]
    /\ txKindData = NoFields
    /\ view = <<>>
    /\ threw = FALSE

CallFormat ==
    /\ pc = "ready"
    /\ entry = "formatByTransactionKind"
    /\ LET r == formatByTransactionKind(fmtArgs.kind, fmtArgs.data,
                                        fmtArgs.sender)
       IN  /\ threw' = r.threw
           /\ txKindData' = IF r.threw THEN NoFields ELSE r.ret
    /\ pc' = "done"
    /\ UNCHANGED <<entry, txdata, fmtArgs, view>>

CallTransactionView ==
    /\ pc = "ready"
    /\ entry = "TransactionView"
    /\ LET txdetails == getTransactions(txdata)[1]
           args == [kind |-> getTransactionKindName(txdetails),
                    data |-> txdetails,
                    sender |-> getTransactionSender(txdata)]
           k == formatByTransactionKind(args.kind, args.data, args.sender)
           r == TransactionView(txdata)
       IN  /\ fmtArgs' = args
           /\ txKindData' = IF k.threw THEN NoFields ELSE k.ret
           /\ threw' = r.threw
           /\ view' = IF r.threw THEN <<>> ELSE r.ret
    /\ pc' = "done"
    /\ UNCHANGED <<entry, txdata>>

Next == CallFormat \/ CallTransactionView

Spec == Init /\ [][Next]_vars

-----------------------------------------------------------------------------
(* Vocabulary of the properties *)

ViewDone == pc = "done" /\ entry = "TransactionView"
Assembled == ViewDone /\ ~threw
FormatDone == pc = "done" /\ entry = "formatByTransactionKind"

Payload == txdata.data.transactions[1]

KnownKinds == {Str("TransferObject"), Str("Call"), Str("Publish")}

\* Payloads that carry every field of their variant.
WellFormed(data) ==
    CASE data.key = Str("TransferObject") ->
            /\ IsObject(data.val.v.objectRef)
            /\ data.val.v.recipient.t = "string"
      [] data.key = Str("Call") ->
            /\ IsObject(data.val.v.package)
            /\ data.val.v.module.t = "string"
            /\ IsArray(data.val.v.arguments)
      [] data.key = Str("Publish") -> IsObject(data.val.v.disassembled)
      [] OTHER -> data.key # Undef

\* The kind tag is a recognised kind and the payload is of another variant.
Mismatch(kind, data) == kind \in KnownKinds /\ data.key # kind

\* The payload is of the variant the tag names and lacks its object
\* reference (TransferObject), its package or module name (Call) or its
\* module map (Publish).
MissingRequired(kind, data) ==
    /\ kind \in KnownKinds
    /\ data.key = kind
    /\ CASE kind = Str("TransferObject") -> data.val.v.objectRef = Undef
         [] kind = Str("Call") ->
                data.val.v.package = Undef \/ data.val.v.module = Undef
         [] OTHER -> data.val.v.disassembled = Undef

BlocksOf(b) == {i \in 1..Len(view) : view[i].block = b}

GroupsOf(title) ==
    {i \in 1..Len(view) : view[i].block = "ItemView" /\ view[i].title = title}

LinkGroups == SelectSeq(view, LAMBDA b : b.block = "TxLinks")

Rank(b) ==
    CASE b.block = "TxResultHeader" -> 1
      [] b.block = "SendReceiveView" -> 2
      [] b.block = "TxLinks" -> 3
      [] b.block = "Modules" -> 4
      [] b.block = "ItemView" /\ b.title = "Arguments" -> 5
      [] b.block = "ItemView" /\ b.title = "Gas & Storage Fees" -> 6
      [] b.block = "ItemView" /\ b.title = "Transaction Signatures" -> 7
      [] b.block = "ItemView" /\ b.title = "Validator Signatures" -> 8
      [] OTHER -> 0

-----------------------------------------------------------------------------
\* C1: in every assembled view the blocks appear in the order header,
\* address block, link groups, module block, argument block, gas/fee block,
\* transaction signatures, validator signatures; the header is first and
\* there is exactly one gas/fee block, before both signature blocks.
C1_BlockOrder ==
    Assembled =>
        /\ view[1].block = "TxResultHeader"
        /\ \A i \in 1..Len(view) : Rank(view[i]) # 0
        /\ \A i, j \in 1..Len(view) :
              i < j => \/ Rank(view[i]) < Rank(view[j])
                       \/ Rank(view[i]) = 3 /\ Rank(view[j]) = 3
        /\ Cardinality(GroupsOf("Gas & Storage Fees")) = 1
        /\ Cardinality(GroupsOf("Transaction Signatures")) = 1
        /\ Cardinality(GroupsOf("Validator Signatures")) = 1

C1_Witness ==
    /\ Assembled
    /\ BlocksOf("SendReceiveView") # {}
    /\ Cardinality(BlocksOf("TxLinks")) = 2
    /\ BlocksOf("Modules") # {}

\* C2: the link groups are a "Mutated" group iff the mutated list is
\* non-empty, then a "Created" group iff the created list is non-empty; each
\* group holds the object ids of its list in order; no group is empty.
C2_LinkGroups ==
    Assembled =>
        LET g == [i \in 1..Len(LinkGroups) |-> LinkGroups[i].data]
            m == txdata.mutated
            c == txdata.created
            nm == IF Len(m) > 0 THEN 1 ELSE 0
            nc == IF Len(c) > 0 THEN 1 ELSE 0
        IN  /\ Len(g) = nm + nc
            /\ nm = 1 =>
                  /\ g[1].label = "Mutated"
                  /\ Len(g[1].links) = Len(m)
                  /\ \A k \in 1..Len(m) : g[1].links[k] = m[k].objectId
            /\ nc = 1 =>
                  /\ g[nm + 1].label = "Created"
                  /\ Len(g[nm + 1].links) = Len(c)
                  /\ \A k \in 1..Len(c) : g[nm + 1].links[k] = c[k].objectId
            /\ \A i \in 1..Len(g) : Len(g[i].links) > 0

C2_Witness ==
    /\ Assembled
    /\ Len(txdata.mutated) = 0
    /\ Len(txdata.created) = MaxObjs
    /\ Len(LinkGroups) = 1

\* C3 (as claimed): the argument block is present only if the argument list
\* is non-empty; a Call with an empty argument list produces no argument
\* group, and a Call with n >= 1 arguments produces a block of exactly n
\* monospace, non-linked fields in the original order.
C3_ArgumentBlockOnlyIfNonEmpty ==
    (Assembled /\ WellFormed(Payload)) =>
        LET a == GroupsOf("Arguments")
            args == IF Payload.key = Str("Call") /\ IsObject(Payload.val)
                       /\ IsArray(Payload.val.v.arguments)
                    THEN Payload.val.v.arguments.v ELSE <<>>
        IN  /\ a # {} <=> Len(args) >= 1
            /\ \A i \in a :
                  /\ Len(view[i].content) = Len(args)
                  /\ \A k \in 1..Len(args) :
                        /\ view[i].content[k].value = args[k]
                        /\ view[i].content[k].mono
                        /\ ~view[i].content[k].isLink

\* C4 (as claimed): the module block is present only if the kind fields
\* carry a module-content list with at least one entry.
C4_ModuleBlockOnlyIfNonEmpty ==
    (Assembled /\ WellFormed(Payload)) =>
        (BlocksOf("Modules") # {} =>
            /\ IsObject(txKindData.module)
            /\ IsArray(txKindData.module.value)
            /\ Len(txKindData.module.value.v) >= 1)

\* C5: for a Publish transaction with n module entries the module block
\* holds exactly the first min(n, 3) entries in iteration order.
C5_ModuleCap ==
    (Assembled /\ Payload.key = Str("Publish")) =>
        LET mods == Payload.val.v.disassembled.v
            n == Len(mods)
            k == IF n < 3 THEN n ELSE 3
        IN  /\ n >= 1 => Cardinality(BlocksOf("Modules")) = 1
            /\ \A i \in BlocksOf("Modules") :
                  /\ Len(view[i].items) = k
                  /\ Len(view[i].items) <= 3
                  /\ \A j \in 1..k : view[i].items[j] = mods[j]

C5_Witness ==
    /\ Assembled
    /\ Payload.key = Str("Publish")
    /\ Len(Payload.val.v.disassembled.v) > 3
    /\ \E i \in BlocksOf("Modules") : Len(view[i].items) = 3

\* C6 (as claimed): the address block is present iff the sender is
\* non-empty; when present its recipient is populated iff the payload is a
\* TransferObject with a non-empty recipient, and its timestamp is included
\* iff the record has a timestamp (any number, 0 included).
C6_AddressBlock ==
    (Assembled /\ WellFormed(Payload)) =>
        LET s == txdata.data.sender
            hasRecipient == /\ Payload.key = Str("TransferObject")
                            /\ Payload.val.v.recipient \notin {Undef, Str("")}
        IN  /\ BlocksOf("SendReceiveView") # {}
                  <=> s \notin {Undef, Str("")}
            /\ \A i \in BlocksOf("SendReceiveView") :
                  /\ view[i].sender = s
                  /\ Len(view[i].recipient) > 0 <=> hasRecipient
                  /\ hasRecipient =>
                        view[i].recipient = <<Payload.val.v.recipient>>
                  /\ view[i].timestamp_ms # Undef
                        <=> txdata.timestamp_ms # Null
                  /\ txdata.timestamp_ms # Null =>
                        view[i].timestamp_ms = txdata.timestamp_ms

\* C7 (as claimed): the formatter fails when its kind tag names a variant
\* the payload is not of, or when the payload lacks a field its kind
\* requires; assembly of such a record fails too and yields no view.
C7_MalformedPayloadFails ==
    /\ (FormatDone /\ (\/ Mismatch(fmtArgs.kind, fmtArgs.data)
                       \/ MissingRequired(fmtArgs.kind, fmtArgs.data)))
          => threw
    /\ (ViewDone /\ MissingRequired(Payload.key, Payload))
          => (threw /\ view = <<>>)

\* C8: for a kind tag other than TransferObject, Call and Publish (the
\* undefined tag included) the formatter returns the empty field set without
\* failing, and assembly yields a view with the header, the gas/fee block and
\* both signature blocks and with no argument block and no module block.
C8_UnknownKind ==
    /\ (pc = "done" /\ fmtArgs.kind \notin KnownKinds)
          => (~threw /\ txKindData = NoFields)
    /\ (ViewDone /\ Payload.key \notin KnownKinds) =>
          /\ ~threw
          /\ Len(view) >= 4
          /\ view[1].block = "TxResultHeader"
          /\ Cardinality(GroupsOf("Gas & Storage Fees")) = 1
          /\ Cardinality(GroupsOf("Transaction Signatures")) = 1
          /\ Cardinality(GroupsOf("Validator Signatures")) = 1
          /\ GroupsOf("Arguments") = {}
          /\ BlocksOf("Modules") = {}

C8_Witness ==
    /\ ViewDone
    /\ Payload.key = Str("ChangeEpoch")
    /\ fmtArgs.kind = Str("ChangeEpoch")
    /\ Len(view) >= 4

\* C9: for a well-formed TransferObject payload with sender s, object id o
\* and recipient r the formatter returns title "Transfer" and exactly the
\* fields sender (s, link, addresses), objectId (o, link, objects) and
\* recipient (r, link, addresses).
C9_TransferFields ==
    (/\ pc = "done"
     /\ fmtArgs.kind = Str("TransferObject")
     /\ fmtArgs.data.key = Str("TransferObject")
     /\ WellFormed(fmtArgs.data)) =>
        LET o == fmtArgs.data.val.v.objectRef.v.objectId
            r == fmtArgs.data.val.v.recipient
            linked(x, c) ==
                [t |-> "object", value |-> x,
                 link |-> [t |-> "boolean", v |-> TRUE],
                 category |-> [t |-> "string", v |-> c],
                 list |-> [t |-> "undefined"]]
        IN  /\ ~threw
            /\ txKindData.title = [t |-> "string", v |-> "Transfer"]
            /\ txKindData.sender = linked(fmtArgs.sender, "addresses")
            /\ txKindData.objectId = linked(o, "objects")
            /\ txKindData.recipient = linked(r, "addresses")
            /\ txKindData.package = Undef
            /\ txKindData.module = Undef
            /\ txKindData.arguments = Undef

C9_Witness ==
    /\ FormatDone
    /\ fmtArgs.kind = Str("TransferObject")
    /\ fmtArgs.data.key = Str("TransferObject")
    /\ WellFormed(fmtArgs.data)
    /\ fmtArgs.sender = Str("0xA")
    /\ fmtArgs.data.val.v.recipient = Str("0xC")
    /\ txKindData.title = Str("Transfer")

KindFieldNames ==
    {"sender", "objectId", "recipient", "package", "module", "arguments"}

\* C10: in the kind fields and in every rendered field group a field marked
\* as a link carries a link category and a field not marked as a link carries
\* none; the gas-payment field is a link of category objects.
C10_LinkCategory ==
    pc = "done" =>
        /\ \A f \in KindFieldNames :
              txKindData[f] # Undef =>
                  /\ Truthy(txKindData[f].link)
                        <=> txKindData[f].category # Undef
                  /\ txKindData[f].category \in
                        {Undef, Str("addresses"), Str("objects")}
        /\ \A i \in BlocksOf("ItemView") :
              \A k \in 1..Len(view[i].content) :
                  /\ view[i].content[k].isLink
                        <=> view[i].content[k].category # Undef
                  /\ view[i].content[k].category \in
                        {Undef, Str("addresses"), Str("objects")}
        /\ \A i \in GroupsOf("Gas & Storage Fees") :
              /\ view[i].content[1].value = txdata.data.gasPayment.objectId
              /\ view[i].content[1].isLink
              /\ view[i].content[1].category = Str("objects")
        /\ (ViewDone /\ ~threw) => GroupsOf("Gas & Storage Fees") # {}

C10_Witness ==
    /\ Assembled
    /\ txKindData.package # Undef
    /\ \E i \in GroupsOf("Arguments") : Len(view[i].content) = MaxArgs
    /\ \E i \in GroupsOf("Validator Signatures") : Len(view[i].content) > 0

====
